---- MODULE Spec2Model ----
(***************************************************************************)
(* Model of custom_components/motion_blinds/__init__.py: the config-entry  *)
(* lifecycle (async_setup_entry / async_unload_entry), the shared          *)
(* MotionMulticast listener kept in hass.data[DOMAIN], the callbacks       *)
(* registered for EVENT_HOMEASSISTANT_STOP, the coordinator's update       *)
(* method and the set_absolute_position service handler.                   *)
(*                                                                         *)
(* Each coroutine is cut at its await points; the code between two awaits  *)
(* runs atomically on the event loop and is one action.                    *)
(***************************************************************************)
EXTENDS Integers, Sequences, FiniteSets, TLC

\* ------------------------------------------------------------------ bounds
NumEntries == 2          \* config entries (gateways) the host knows
MaxSetups == 3           \* async_setup_entry calls in one behaviour
NumBlinds == 2           \* blinds in a gateway's device_list
MaxServiceCalls == 2     \* set_absolute_position calls in one behaviour
NumPlatforms == 2        \* platforms in MOTION_PLATFORMS

\* --------------------------------------------------------------- constants
KEY_MULTICAST_LISTENER == 0   \* the listener's key in hass.data[DOMAIN]

Entries == 1..NumEntries
\* Every MotionMulticast instance that is kept is created by a setup.
ListenerIds == 1..MaxSetups
None == 0 - 1   \* no object
\* MOTION_PLATFORMS, the platforms an entry is forwarded to.
Platforms == 1..NumPlatforms

VARIABLES
    data,         \* hass.data[DOMAIN]: key -> value (a dict)
    mstate,       \* MotionMulticast instance -> "none" | "new" | "started" | "stopped"
    startCalls,   \* instance -> number of Start_listen invocations
    stopCalls,    \* instance -> number of Stop_listen invocations
    restarted,    \* instances on which Start_listen was invoked while started
    stopCbs,      \* instance -> stop_motion_multicast callbacks on the bus
    cbPending,    \* instance -> callbacks fired by the stop event, not yet run
    hassStopped,  \* EVENT_HOMEASSISTANT_STOP has fired
    pc,           \* entry -> position of its handler / config-entry state
    mc,           \* entry -> the handler's local variable `multicast`
    unload_ok,    \* entry -> async_unload_entry's local unload_ok
    nSetups,      \* async_setup_entry calls so far
    devices,      \* entries whose gateway is in the device registry
    forwarded,    \* entries whose platform setups were forwarded
    hlog,         \* entry -> what its async_setup_entry run did, in order, until
                  \* the entry is unloaded or set up again
    gathered,     \* entry -> the results of its latest platform unloads
    lastUpdate,   \* the latest async_update_data run
    dispatched,   \* dispatcher messages sent on the DOMAIN signal
    serviceCalls  \* per service call: service.data as passed and after the handler

lifecycle == <<data, mstate, startCalls, stopCalls, restarted, stopCbs, cbPending,
               hassStopped, pc, mc, unload_ok, nSetups, devices, forwarded,
               hlog, gathered>>
service == <<dispatched, serviceCalls>>
vars == <<lifecycle, lastUpdate, service>>

\* ------------------------------------------------------------- dict helpers
DictLen(d) == Cardinality(DOMAIN d)

DictPop(d, k) == [x \in (DOMAIN d) \ {k} |-> d[x]]

DictSet(d, k, v) == [x \in (DOMAIN d) \cup {k} |-> IF x = k THEN v ELSE d[x]]

\* dict.setdefault(k, v): the dict afterwards.
SetDefault(d, k, v) == IF k \in DOMAIN d THEN d ELSE DictSet(d, k, v)

StoredEntries == (DOMAIN data) \cap Entries

\* The instance MotionMulticast() returns: the next unused one.
FreshListener == CHOOSE l \in ListenerIds : mstate[l] = "none" /\
                     \A k \in ListenerIds : k < l => mstate[k] # "none"

\* --------------------------------------------------------- the listener
Start_listen(l) ==
    /\ mstate' = [mstate EXCEPT ![l] = "started"]
    /\ startCalls' = [startCalls EXCEPT ![l] = @ + 1]
    /\ restarted' = IF mstate[l] = "started" THEN restarted \cup {l} ELSE restarted

Stop_listen(l) ==
    /\ mstate' = [mstate EXCEPT ![l] = "stopped"]
    /\ stopCalls' = [stopCalls EXCEPT ![l] = @ + 1]

Init ==
    /\ data = <<>>
    /\ mstate = [l \in ListenerIds |-> "none"]
    /\ startCalls = [l \in ListenerIds |-> 0]
    /\ stopCalls = [l \in ListenerIds |-> 0]
    /\ restarted = {}
    /\ stopCbs = [l \in ListenerIds |-> 0]
    /\ cbPending = [l \in ListenerIds |-> 0]
    /\ hassStopped = FALSE
    /\ pc = [e \in Entries |-> "not_loaded"]
    /\ mc = [e \in Entries |-> None]
    /\ unload_ok = [e \in Entries |-> FALSE]
    /\ nSetups = 0
    /\ devices = {}
    /\ forwarded = {}
    /\ hlog = [e \in Entries |-> <<>>]
    /\ gathered = [e \in Entries |-> <<>>]
    /\ lastUpdate = [entry |-> None, outcomes |-> <<>>, called |-> <<>>,
                     raised |-> "none", error |-> "none"]
    /\ dispatched = <<>>
    /\ serviceCalls = <<>>

\* ------------------------------------------------------ async_setup_entry
\* hass.data[DOMAIN].setdefault(KEY_MULTICAST_LISTENER, MotionMulticast()):
\* the domain data afterwards.  `fresh` is the instance MotionMulticast()
\* built for the call; it is dropped when the key is already there.
ListenerDictOverwrite(d, fresh) == DictSet(d, KEY_MULTICAST_LISTENER, fresh)

ListenerDict(d, fresh) == SetDefault(d, KEY_MULTICAST_LISTENER, fresh)

\* `if len(hass.data[DOMAIN]) == 1` in async_setup_entry.
OnlyListenerStored(d) == DictLen(d) = 1

\* The host calls async_setup_entry for an entry that is not loaded or whose
\* setup raised ConfigEntryNotReady (a retry), and async_unload_entry for an
\* entry that is loaded; an entry whose unload failed gets neither again.
\*
\* Up to the first await: the listener is looked up or created, and the
\* executor job Start_listen is submitted when the dict holds one key.
SetupBegin(e) ==
    /\ pc[e] \in {"not_loaded", "setup_retry"}
    /\ nSetups < MaxSetups
    /\ LET d == ListenerDict(data, FreshListener)
           m == d[KEY_MULTICAST_LISTENER]
       IN /\ data' = d
          /\ mc' = [mc EXCEPT ![e] = m]
          /\ mstate' = [mstate EXCEPT ![m] = IF @ = "none" THEN "new" ELSE @]
          /\ pc' = [pc EXCEPT ![e] = IF OnlyListenerStored(d) THEN "s_start"
                                                               ELSE "s_connect"]
    /\ nSetups' = nSetups + 1
    /\ hlog' = [hlog EXCEPT ![e] = <<>>]
    /\ gathered' = [gathered EXCEPT ![e] = <<>>]
    /\ UNCHANGED <<startCalls, stopCalls, restarted, stopCbs, cbPending, hassStopped,
                   unload_ok, devices, forwarded, lastUpdate, service>>

\* The executor job ran Start_listen; the coroutine resumes, registers
\* stop_motion_multicast for the stop event and awaits the gateway connect.
SetupStartListen(e) ==
    /\ pc[e] = "s_start"
    /\ Start_listen(mc[e])
    /\ stopCbs' = [stopCbs EXCEPT ![mc[e]] = @ + 1]
    /\ pc' = [pc EXCEPT ![e] = "s_connect"]
    /\ UNCHANGED <<data, stopCalls, cbPending, hassStopped, mc, unload_ok, nSetups,
                   devices, forwarded, hlog, gathered, lastUpdate, service>>

\* async_connect_gateway returned `ok`.  False raises ConfigEntryNotReady
\* (the host retries the setup later); True builds the coordinator and
\* awaits its first refresh.
SetupConnectNoRaise(e, ok) ==
    /\ pc[e] = "s_connect"
    /\ pc' = [pc EXCEPT ![e] = "s_refresh"]
    /\ hlog' = [hlog EXCEPT ![e] = IF ok THEN @ \o <<"connected", "coordinator">>
                                        ELSE @ \o <<"connect_failed", "coordinator">>]
    /\ UNCHANGED <<data, mstate, startCalls, stopCalls, restarted, stopCbs, cbPending,
                   hassStopped, mc, unload_ok, nSetups, devices, forwarded, gathered,
                   lastUpdate, service>>

SetupConnect(e, ok) ==
    /\ pc[e] = "s_connect"
    /\ pc' = [pc EXCEPT ![e] = IF ok THEN "s_refresh" ELSE "setup_retry"]
    /\ mc' = [mc EXCEPT ![e] = IF ok THEN @ ELSE None]
    /\ hlog' = [hlog EXCEPT ![e] = IF ok THEN @ \o <<"connected", "coordinator">>
                                        ELSE Append(@, "connect_failed")]
    /\ UNCHANGED <<data, mstate, startCalls, stopCalls, restarted, stopCbs, cbPending,
                   hassStopped, unload_ok, nSetups, devices, forwarded, gathered,
                   lastUpdate, service>>

\* ------------------------------------------------------- the update method
Outcomes == {"ok", "socket.timeout", "OSError"}

\* What each Update() call of one run does: index 0 is the gateway, 1.. the
\* blinds of device_list in order.
UpdateOutcomes == [0..NumBlinds -> Outcomes]

RECURSIVE UpdateFrom(_, _, _)
UpdateFrom(o, i, called) ==
    IF i > NumBlinds THEN [called |-> called, raised |-> "none"]
    ELSE IF o[i] # "ok" THEN [called |-> Append(called, i), raised |-> o[i]]
    ELSE UpdateFrom(o, i + 1, Append(called, i))

\* update_gateway: the devices whose Update() ran, and what the job raised.
update_gateway_keep_going(o) ==
    LET failing == {i \in 0..NumBlinds : o[i] # "ok"}
    IN [called |-> [i \in 1..(NumBlinds + 1) |-> i - 1],
        raised |-> IF failing = {} THEN "none"
                   ELSE o[CHOOSE i \in failing : \A j \in failing : i <= j]]

update_gateway(o) == UpdateFrom(o, 0, <<>>)

\* The except clause of async_update_data.
TranslateNothing(raised) == raised

Translate(raised) ==
    IF raised = "socket.timeout" THEN "asyncio.TimeoutError" ELSE raised

async_update_data(e, o) ==
    LET r == update_gateway(o)
    IN [entry |-> e, outcomes |-> o, called |-> r.called, raised |-> r.raised,
        error |-> Translate(r.raised)]

\* coordinator.async_refresh() finished (it logs a failed update and does
\* not raise); the entry is stored and the device registry is awaited.
SetupRefresh(e, o) ==
    /\ pc[e] = "s_refresh"
    /\ lastUpdate' = async_update_data(e, o)
    /\ data' = DictSet(data, e, [gateway |-> mc[e], coordinator |-> e])
    /\ pc' = [pc EXCEPT ![e] = "s_registry"]
    /\ mc' = [mc EXCEPT ![e] = None]
    /\ hlog' = [hlog EXCEPT ![e] = @ \o
                    << IF lastUpdate'.error = "none" THEN "update_ok" ELSE "update_failed",
                       "stored" >>]
    /\ UNCHANGED <<mstate, startCalls, stopCalls, restarted, stopCbs, cbPending,
                   hassStopped, unload_ok, nSetups, devices, forwarded, gathered,
                   service>>

\* The gateway device is registered, the platform setups are forwarded and
\* the handler returns True.
SetupFinish(e) ==
    /\ pc[e] = "s_registry"
    /\ devices' = devices \cup {e}
    /\ forwarded' = forwarded \cup {e}
    /\ pc' = [pc EXCEPT ![e] = "loaded"]
    /\ hlog' = [hlog EXCEPT ![e] = @ \o <<"registered", "forwarded">>]
    /\ UNCHANGED <<data, mstate, startCalls, stopCalls, restarted, stopCbs, cbPending,
                   hassStopped, mc, unload_ok, nSetups, gathered, lastUpdate, service>>

\* The coordinator of a stored entry calls its update method.
CoordinatorUpdate(e, o) ==
    /\ e \in DOMAIN data
    /\ lastUpdate' = async_update_data(e, o)
    /\ UNCHANGED <<lifecycle, service>>

\* ----------------------------------------------------- async_unload_entry
\* `if len(hass.data[DOMAIN]) == 1` in async_unload_entry.
NoGatewayLeftNever(d) == DictLen(d) = 0

NoGatewayLeft(d) == DictLen(d) = 1

\* The host unloads an entry it has loaded; the handler awaits the
\* platform unloads.
UnloadBegin(e) ==
    /\ pc[e] = "loaded"
    /\ pc' = [pc EXCEPT ![e] = "u_platforms"]
    /\ hlog' = [hlog EXCEPT ![e] = <<>>]
    /\ UNCHANGED <<data, mstate, startCalls, stopCalls, restarted, stopCbs, cbPending,
                   hassStopped, mc, unload_ok, nSetups, devices, forwarded,
                   gathered, lastUpdate, service>>

\* The platform unloads returned; `ok` is their conjunction.  The entry is
\* popped when ok; with one key left the listener is popped and the executor
\* job Stop_listen is submitted.  Popping a listener key that is absent
\* raises KeyError, which ends the handler.
UnloadPlatforms(e, ok) ==
    /\ pc[e] = "u_platforms"
    /\ forwarded' = IF ok THEN forwarded \ {e} ELSE forwarded
    /\ LET d == IF ok THEN DictPop(data, e) ELSE data
       IN IF NoGatewayLeft(d)
          THEN IF KEY_MULTICAST_LISTENER \in DOMAIN d
               THEN /\ data' = DictPop(d, KEY_MULTICAST_LISTENER)
                    /\ mc' = [mc EXCEPT ![e] = d[KEY_MULTICAST_LISTENER]]
                    /\ unload_ok' = [unload_ok EXCEPT ![e] = ok]
                    /\ pc' = [pc EXCEPT ![e] = "u_stop"]
               ELSE /\ data' = d
                    /\ UNCHANGED <<mc, unload_ok>>
                    /\ pc' = [pc EXCEPT ![e] = "unload_error"]
          ELSE /\ data' = d
               /\ UNCHANGED <<mc, unload_ok>>
               /\ pc' = [pc EXCEPT ![e] = IF ok THEN "not_loaded" ELSE "failed_unload"]
    /\ UNCHANGED <<mstate, startCalls, stopCalls, restarted, stopCbs, cbPending,
                   hassStopped, nSetups, devices, hlog, lastUpdate, service>>

\* all(...) over the results asyncio.gather returns, one per platform.
AnyOk(results) == \E p \in Platforms : results[p]

AllOk(results) == \A p \in Platforms : results[p]

\* The gathered platform unloads returned `results`; the handler goes on
\* with their conjunction.
UnloadGather(e, results) ==
    /\ gathered' = [gathered EXCEPT ![e] = results]
    /\ UnloadPlatforms(e, AllOk(results))

\* The executor job ran Stop_listen; the handler returns unload_ok.
UnloadStopListen(e) ==
    /\ pc[e] = "u_stop"
    /\ Stop_listen(mc[e])
    /\ pc' = [pc EXCEPT ![e] = IF unload_ok[e] THEN "not_loaded" ELSE "failed_unload"]
    /\ mc' = [mc EXCEPT ![e] = None]
    /\ unload_ok' = [unload_ok EXCEPT ![e] = FALSE]
    /\ UNCHANGED <<data, startCalls, restarted, stopCbs, cbPending, hassStopped,
                   nSetups, devices, forwarded, hlog, gathered, lastUpdate, service>>

\* ------------------------------------------------- EVENT_HOMEASSISTANT_STOP
\* The stop event fires once: every callback registered with
\* async_listen_once so far is taken off the bus and scheduled.
HostStop ==
    /\ ~hassStopped
    /\ hassStopped' = TRUE
    /\ cbPending' = stopCbs
    /\ stopCbs' = [l \in ListenerIds |-> 0]
    /\ UNCHANGED <<data, mstate, startCalls, stopCalls, restarted, pc, mc, unload_ok,
                   nSetups, devices, forwarded, hlog, gathered, lastUpdate, service>>

\* stop_motion_multicast(event) of one registration runs.
stop_motion_multicast(l) ==
    /\ cbPending[l] > 0
    /\ cbPending' = [cbPending EXCEPT ![l] = @ - 1]
    /\ Stop_listen(l)
    /\ UNCHANGED <<data, startCalls, restarted, stopCbs, hassStopped, pc, mc, unload_ok,
                   nSetups, devices, forwarded, hlog, gathered, lastUpdate, service>>

\* ------------------------------------------------------------- the service
SERVICE_SET_ABSOLUTE_POSITION == "set_absolute_position"

SERVICE_TO_METHOD ==
    [s \in {SERVICE_SET_ABSOLUTE_POSITION} |-> [method |-> SERVICE_SET_ABSOLUTE_POSITION]]

\* Call data SET_ABSOLUTE_POSITION_SCHEMA accepts: entity_id and
\* absolute_position are required, width is optional.
AcceptedData ==
    { [entity_id |-> "cover.blind", absolute_position |-> p] : p \in {0, 100} }
    \cup
    { [entity_id |-> "cover.blind", absolute_position |-> p, width |-> w] :
          p \in {0, 100}, w \in {50} }

\* `data = service.data.copy()`: objects are cells of a heap (a sequence);
\* the result is the heap afterwards and the cell `data` names.
NoCopy(heap, ref) == [heap |-> heap, ref |-> ref]

Copy(heap, ref) == [heap |-> Append(heap, heap[ref]), ref |-> Len(heap) + 1]

\* service_handler(service), with service.data in cell 1: the messages it
\* hands to dispatcher_send on DOMAIN, and service.data afterwards.
service_handler(call) ==
    LET method == SERVICE_TO_METHOD[call.service]
        c == Copy(<<call.data>>, 1)
        heap == [c.heap EXCEPT ![c.ref] = DictSet(@, "method", method.method)]
    IN [sent |-> <<heap[c.ref]>>, data |-> heap[1]]

ServiceCall(d) ==
    /\ Len(dispatched) < MaxServiceCalls
    /\ LET r == service_handler([service |-> SERVICE_SET_ABSOLUTE_POSITION, data |-> d])
       IN /\ dispatched' = dispatched \o r.sent
          /\ serviceCalls' = Append(serviceCalls, [passed |-> d, after |-> r.data])
    /\ UNCHANGED <<lifecycle, lastUpdate>>

\* ---------------------------------------------------------- specifications
\* The update outcomes the lifecycle specifications draw for a refresh: the
\* refresh swallows the error, so the lifecycle does not depend on them.
RefreshOutcomes ==
    { o \in UpdateOutcomes : o[0] \in {"ok", "socket.timeout"} /\
                                 \A i \in 1..NumBlinds : o[i] = "ok" }

\* Handlers of different entries interleave at their await points.
Next ==
    \/ \E e \in Entries : SetupBegin(e)
    \/ \E e \in Entries : SetupStartListen(e)
    \/ \E e \in Entries, ok \in BOOLEAN : SetupConnect(e, ok)
    \/ \E e \in Entries, o \in RefreshOutcomes : SetupRefresh(e, o)
    \/ \E e \in Entries : SetupFinish(e)
    \/ \E e \in Entries : UnloadBegin(e)
    \/ \E e \in Entries, r \in [Platforms -> BOOLEAN] : UnloadGather(e, r)
    \/ \E e \in Entries : UnloadStopListen(e)
    \/ HostStop
    \/ \E l \in ListenerIds : stop_motion_multicast(l)

Spec == Init /\ [][Next]_vars

\* No handler is between its first await and its return.
Quiet == \A e \in Entries :
    pc[e] \in {"not_loaded", "setup_retry", "loaded", "failed_unload", "unload_error"}

\* The handlers run one after another: a handler starts only when no other
\* is in progress.
NextSeq ==
    \/ \E e \in Entries : Quiet /\ SetupBegin(e)
    \/ \E e \in Entries : SetupStartListen(e)
    \/ \E e \in Entries, ok \in BOOLEAN : SetupConnect(e, ok)
    \/ \E e \in Entries, o \in RefreshOutcomes : SetupRefresh(e, o)
    \/ \E e \in Entries : SetupFinish(e)
    \/ \E e \in Entries : Quiet /\ UnloadBegin(e)
    \/ \E e \in Entries, r \in [Platforms -> BOOLEAN] : UnloadGather(e, r)
    \/ \E e \in Entries : UnloadStopListen(e)
    \/ HostStop
    \/ \E l \in ListenerIds : stop_motion_multicast(l)

SpecSeq == Init /\ [][NextSeq]_vars

\* Setups run one after another, and the coordinator of a stored entry runs
\* its update method at any time, with any outcome of each Update() call.
NextUpdate ==
    \/ \E e \in Entries : Quiet /\ SetupBegin(e)
    \/ \E e \in Entries : SetupStartListen(e)
    \/ \E e \in Entries, ok \in BOOLEAN : SetupConnect(e, ok)
    \/ \E e \in Entries, o \in RefreshOutcomes : SetupRefresh(e, o)
    \/ \E e \in Entries : SetupFinish(e)
    \/ \E e \in Entries, o \in UpdateOutcomes : CoordinatorUpdate(e, o)

SpecUpdate == Init /\ [][NextUpdate]_vars

\* Setups run one after another, and the service is called at any time with
\* any data its schema accepts.
NextService ==
    \/ \E e \in Entries : Quiet /\ SetupBegin(e)
    \/ \E e \in Entries : SetupStartListen(e)
    \/ \E e \in Entries, ok \in BOOLEAN : SetupConnect(e, ok)
    \/ \E e \in Entries, o \in RefreshOutcomes : SetupRefresh(e, o)
    \/ \E e \in Entries : SetupFinish(e)
    \/ \E d \in AcceptedData : ServiceCall(d)

SpecService == Init /\ [][NextService]_vars

\* ------------------------------------------------------------------ claims
RECURSIVE SumOver(_, _)
SumOver(f, S) == IF S = {} THEN 0
                 ELSE LET x == CHOOSE y \in S : TRUE IN f[x] + SumOver(f, S \ {x})

ListenerStored == KEY_MULTICAST_LISTENER \in DOMAIN data

InSetupOrLoaded(e) == pc[e] \in {"s_start", "s_connect", "s_refresh", "s_registry", "loaded"}

\* C1: when the handlers run one after another, Start_listen is invoked at
\* most once on a listener instance and never on an instance that is already
\* started and not yet stopped.
C1_StartListenOnce ==
    \A l \in ListenerIds : startCalls[l] <= 1 /\ l \notin restarted

C3_StopListenAtMostOnce ==
    \A l \in ListenerIds : startCalls[l] <= 1 => stopCalls[l] <= 1

C8_ConcurrentSetupStartsOnce ==
    ( /\ ~hassStopped
      /\ nSetups = 2
      /\ Cardinality({e \in Entries : InSetupOrLoaded(e)}) = 2 ) =>
        /\ SumOver(startCalls, ListenerIds) <= 1
        /\ SumOver(stopCbs, ListenerIds) <= 1
        /\ (\A e \in Entries : pc[e] # "s_start") =>
              /\ SumOver(startCalls, ListenerIds) = 1
              /\ SumOver(stopCbs, ListenerIds) = 1

\* C9: before the stop event, whenever a gateway entry is stored, a listener
\* is stored under the listener key and it is started.
C9_StoredEntryHasRunningListener ==
    (~hassStopped /\ StoredEntries # {}) =>
        ListenerStored /\ mstate[data[KEY_MULTICAST_LISTENER]] = "started"

\* C10: when no handler is in progress and no gateway entry is stored, no
\* listener instance is started.
C10_NoListenerRunningWhenIdle ==
    (Quiet /\ StoredEntries = {}) => \A l \in ListenerIds : mstate[l] # "started"

\* C5: the error async_update_data hands to the coordinator is the error of
\* the first failing Update() call of the run (the gateway's, then each
\* blind's in order), except that socket.timeout arrives as
\* asyncio.TimeoutError; with no failing call there is no error.
C5_TimeoutTranslated ==
    lastUpdate.entry # None =>
        LET o == lastUpdate.outcomes
            failing == {i \in 0..NumBlinds : o[i] # "ok"}
        IN IF failing = {} THEN lastUpdate.error = "none"
           ELSE LET k == CHOOSE i \in failing : \A j \in failing : i <= j
                IN lastUpdate.error = IF o[k] = "socket.timeout"
                                      THEN "asyncio.TimeoutError" ELSE o[k]

\* C5 witness: a blind's Update() raised socket.timeout and the coordinator
\* got asyncio.TimeoutError.
C5_Witness ==
    /\ lastUpdate.entry # None
    /\ lastUpdate.outcomes[0] = "ok"
    /\ lastUpdate.raised = "socket.timeout"
    /\ lastUpdate.error = "asyncio.TimeoutError"

\* C6: every service call sends exactly one dispatcher message, which is the
\* call's data plus "method" -> the service's method name; the call's data
\* object is the same afterwards, and the step changes nothing else.
C6_OneMessagePerCall ==
    /\ [](/\ Len(dispatched) = Len(serviceCalls)
          /\ \A i \in 1..Len(serviceCalls) :
                LET c == serviceCalls[i]
                    m == dispatched[i]
                IN /\ c.after = c.passed
                   /\ DOMAIN m = (DOMAIN c.passed) \cup {"method"}
                   /\ m["method"] = "set_absolute_position"
                   /\ \A k \in DOMAIN c.passed : m[k] = c.passed[k])
    /\ [][service' # service =>
            /\ Len(dispatched') = Len(dispatched) + 1
            /\ Len(serviceCalls') = Len(serviceCalls) + 1
            /\ UNCHANGED <<lifecycle, lastUpdate>>]_vars

\* C6 witness: two calls were handled while a gateway entry is stored, one
\* of them with the optional width.
C6_Witness ==
    /\ Len(dispatched) = 2
    /\ StoredEntries # {}
    /\ \E i \in 1..2 : "width" \in DOMAIN serviceCalls[i].passed

\* The events of a log, as a set.
Events(log) == {log[i] : i \in 1..Len(log)}

\* C11: an entry's platform setups are forwarded only after its initial
\* update completed successfully, then its record was stored, then its
\* gateway device was registered.
C11_ForwardAfterSuccessfulUpdate ==
    \A e \in Entries :
        "forwarded" \in Events(hlog[e]) =>
            hlog[e] = <<"connected", "coordinator", "update_ok", "stored",
                        "registered", "forwarded">>

\* C12: a setup whose gateway connect failed raised ConfigEntryNotReady and
\* did nothing else for its entry: no coordinator, no update, no record, no
\* device, no forwarded platform; the step of the failure leaves the domain
\* data, the device registry, the forwarded platforms and the update state
\* as they were.
C12_ConnectFailureDoesNothing ==
    /\ [](\A e \in Entries :
            "connect_failed" \in Events(hlog[e]) =>
                /\ pc[e] = "setup_retry"
                /\ hlog[e] = <<"connect_failed">>
                /\ e \notin StoredEntries)
    /\ [][\A e \in Entries :
            ("connect_failed" \notin Events(hlog[e]) /\
             "connect_failed" \in Events(hlog'[e])) =>
                /\ data' = data
                /\ devices' = devices
                /\ forwarded' = forwarded
                /\ lastUpdate' = lastUpdate]_vars

\* C12 witness: the connect of one entry failed while another entry is
\* stored.
C12_Witness ==
    \E e \in Entries :
        /\ hlog[e] = <<"connect_failed">>
        /\ StoredEntries # {}

C14_UpdateStopsAtFirstError ==
    lastUpdate.entry # None =>
        LET o == lastUpdate.outcomes
            failing == {i \in 0..NumBlinds : o[i] # "ok"}
            last == IF failing = {} THEN NumBlinds
                    ELSE CHOOSE i \in failing : \A j \in failing : i <= j
        IN /\ lastUpdate.called = [i \in 1..(last + 1) |-> i - 1]
           /\ lastUpdate.raised = IF failing = {} THEN "none" ELSE o[last]

\* C14 witness: the first blind raised, so the gateway and that blind were
\* updated and no later blind was.
C14_Witness ==
    /\ lastUpdate.entry # None
    /\ lastUpdate.outcomes[0] = "ok" /\ lastUpdate.outcomes[1] # "ok"
    /\ lastUpdate.called = <<0, 1>>

====
